---------------------------- MODULE Spec2Model ----------------------------
(***************************************************************************)
(* Model of the UnrealTest gameplay module: AUnrealTestCharacter           *)
(* (UnrealTestCharacter.cpp) and AUnrealTestGameState                      *)
(* (UnrealTestGameState.h).                                                *)
(*                                                                         *)
(* A character exists as one actor instance per machine: the server's      *)
(* instance (ROLE_Authority), the owning client's (ROLE_AutonomousProxy)   *)
(* and other clients' (ROLE_SimulatedProxy).  The engine routes the RPCs:  *)
(* a Server RPC called on the authority instance runs in place, called on  *)
(* the owning client it travels to the authority instance; a Client RPC    *)
(* called on the server travels to the owning client when the character    *)
(* is owned by a remote player and runs in place otherwise; a NetMulticast *)
(* RPC called on the server runs in place and travels to every client      *)
(* instance.  Each RPC is validated where it is executed.                  *)
(***************************************************************************)
EXTENDS Integers, Sequences, FiniteSets, TLC

\* ------------------------------------------------------------------ bounds
NumInstances == 2
MaxCalls == 2
MaxTeamID == 1
MaxPlayerCount == 1
MaxMatchPhase == 1
MaxNotifications == 3

Instances == 1..NumInstances
TeamIDs == 0..MaxTeamID
PlayerCounts == (0 - 1)..MaxPlayerCount
MatchPhases == 0..MaxMatchPhase

\* ENetRole, ordered as the engine orders it (BeginPlay compares with >=).
NetRole == [ROLE_None |-> 0, ROLE_SimulatedProxy |-> 1,
            ROLE_AutonomousProxy |-> 2, ROLE_Authority |-> 3]

\* What GetController() returns on an instance: nothing, the machine's own
\* player controller, a player controller driven from another machine, or
\* an AI controller.
ControllerKinds == {"None", "LocalPlayer", "RemotePlayer", "AI"}

VARIABLES
    \* the world, fixed when the actors are spawned
    LocalRole,          \* GetLocalRole() of each instance
    Controller,         \* GetController() of each instance
    ServerOf,           \* the authority instance of the same character
    HUDClass,           \* the first player controller's HUD is an AUnrealTestHUD
    \* AUnrealTestCharacter
    bHasBegunPlay,      \* BeginPlay has run
    CurrentWeapon,      \* "null" until BeginPlay spawns the weapon
    WeaponShots,        \* ABaseWeapon::Shoot calls received by CurrentWeapon
    PlayerHUD,          \* PlayerHUD is set (not null)
    Health,             \* HealthComponent's health: "unset" or "MaxHealth"
    bInputBound,        \* SetupPlayerInputComponent has bound the actions
    bInputEnabled,      \* the pawn's input (DisableInput on the character)
    ControllerInput,    \* the controller's input (DisableInput on the controller)
    bHidden,            \* SetActorHiddenInGame
    bCollision,         \* SetActorEnableCollision
    bCapsuleGravity,    \* GetCapsuleComponent()->SetEnableGravity
    GravityScale,       \* GetCharacterMovement()->GravityScale
    GameOverWidget,     \* the HUD's game over screen: defeated flag, visibility
    \* AUnrealTestGameMode
    OnGameOver,         \* invocation list of the OnGameOver delegate
    broadcast,          \* the OnGameOver.Broadcast in progress
    \* engine
    inbox,              \* RPCs in flight to each instance, in order
    crashed,            \* the function in which an instance's process stopped
    \* history
    issued,             \* RPC stubs called on each instance
    runs,               \* RPC implementations executed on each instance
    rejected,           \* RPCs refused by validation on each instance
    \* AUnrealTestGameState
    GamePhase,
    MaxPlayersInSession,
    CurrentPlayersInSession,
    setterCalls,        \* number of setter calls so far
    delegateLog         \* broadcasts of the game state's delegates, in order

worldVars == <<LocalRole, Controller, ServerOf, HUDClass>>
charVars == <<bHasBegunPlay, CurrentWeapon, WeaponShots, PlayerHUD, Health,
              bInputBound, bInputEnabled, ControllerInput, bHidden, bCollision,
              bCapsuleGravity, GravityScale, GameOverWidget>>
modeVars == <<OnGameOver, broadcast>>
engineVars == <<inbox, crashed, issued, runs, rejected>>
gameStateVars == <<GamePhase, MaxPlayersInSession, CurrentPlayersInSession,
                   setterCalls, delegateLog>>
vars == <<worldVars, charVars, modeVars, engineVars, gameStateVars>>

\* ------------------------------------------------------------------ world

IsAuthority(self) == LocalRole[self] = "ROLE_Authority"

\* APawn::IsLocallyControlled: there is a controller and it is local to this
\* machine (the machine's own player, or an AI controller on the server).
IsLocallyControlled(self) == Controller[self] \in {"LocalPlayer", "AI"}

\* Cast<APlayerController>(GetController()) is not null.
IsPlayerController(self) == Controller[self] \in {"LocalPlayer", "RemotePlayer"}

\* Every authority instance lives in the server process; each client instance
\* is taken to live in a process of its own.
Machine(self) == IF IsAuthority(self) THEN 0 ELSE self

OwnerOf(server) ==
    {o \in Instances : ServerOf[o] = server /\ LocalRole[o] = "ROLE_AutonomousProxy"}

ClientsOf(server) == {o \in Instances : ServerOf[o] = server /\ o # server}

ControllerRank == [None |-> 0, LocalPlayer |-> 1, RemotePlayer |-> 2, AI |-> 3]

\* The worlds the model starts from.  The server's instance of a character
\* comes before its clients' instances; only the owning client of a remotely
\* played character holds an autonomous proxy, with its own player controller,
\* and other clients' proxies have no controller; whether the HUD found is an
\* AUnrealTestHUD is one setting of the game; the server has at most one local
\* player; characters that exist on the server only are listed in the order
\* of their controllers' kinds, since exchanging two of them changes nothing.
ValidWorld(role, ctrl, srv, hud) ==
    \A i \in Instances :
        /\ srv[i] <= i
        /\ role[srv[i]] = "ROLE_Authority"
        /\ (role[i] = "ROLE_Authority") <=> (srv[i] = i)
        /\ role[i] = "ROLE_AutonomousProxy" =>
              /\ ctrl[i] = "LocalPlayer"
              /\ ctrl[srv[i]] = "RemotePlayer"
              /\ \A j \in Instances :
                    (role[j] = "ROLE_AutonomousProxy" /\ srv[j] = srv[i]) => j = i
        /\ role[i] = "ROLE_SimulatedProxy" => ctrl[i] = "None"
        /\ \A j \in Instances :
              /\ hud[i] = hud[j]
              /\ (i < j /\ ctrl[i] = "LocalPlayer" /\ ctrl[j] = "LocalPlayer")
                    => role[j] # "ROLE_Authority"
              /\ (i < j /\ srv[i] = i /\ srv[j] = j
                    /\ \A o \in Instances : srv[o] \in {i, j} => o = srv[o])
                    => ControllerRank[ctrl[i]] <= ControllerRank[ctrl[j]]

NoCalls == [Server_Shoot |-> 0, Multicast_Die |-> 0, Client_GameOver |-> 0]

InitWorld ==
    /\ ServerOf \in [Instances -> Instances]
    /\ LocalRole \in [Instances -> {"ROLE_SimulatedProxy", "ROLE_AutonomousProxy",
                                    "ROLE_Authority"}]
    /\ Controller \in [Instances -> ControllerKinds]
    /\ HUDClass \in [Instances -> BOOLEAN]
    /\ ValidWorld(LocalRole, Controller, ServerOf, HUDClass)

InitCharacter ==
    /\ bHasBegunPlay = [i \in Instances |-> FALSE]
    /\ CurrentWeapon = [i \in Instances |-> "null"]
    /\ WeaponShots = [i \in Instances |-> 0]
    /\ PlayerHUD = [i \in Instances |-> FALSE]
    /\ Health = [i \in Instances |-> "unset"]
    /\ bInputBound = [i \in Instances |-> FALSE]
    /\ bInputEnabled = [i \in Instances |-> TRUE]
    /\ ControllerInput = [i \in Instances |-> TRUE]
    /\ bHidden = [i \in Instances |-> FALSE]
    /\ bCollision = [i \in Instances |-> TRUE]
    /\ bCapsuleGravity = [i \in Instances |-> TRUE]
    /\ GravityScale = [i \in Instances |-> 1]
    /\ GameOverWidget = [i \in Instances |-> [defeated |-> FALSE, visible |-> FALSE]]
    /\ OnGameOver = <<>>
    /\ broadcast = [idx |-> 0, team |-> 0, count |-> 0]
    /\ inbox = [i \in Instances |-> <<>>]
    /\ crashed = [i \in Instances |-> ""]
    /\ issued = [i \in Instances |-> NoCalls]
    /\ runs = [i \in Instances |-> NoCalls]
    /\ rejected = [i \in Instances |-> 0]


\* ----------------------------------------------------------------- engine

\* A process that has crashed runs nothing more.
Alive(self) ==
    \A j \in Instances : Machine(j) = Machine(self) => crashed[j] = ""

\* The server's game thread runs one thing at a time: nothing else runs on
\* the server while OnGameOver.Broadcast walks its invocation list.
Ready(self) == Alive(self) /\ (IsAuthority(self) => broadcast.idx = 0)

\* RPC stubs called and broadcasts begun so far, which MaxCalls bounds.
RECURSIVE CallsUpTo(_)
CallsUpTo(n) ==
    IF n = 0 THEN broadcast.count
    ELSE CallsUpTo(n - 1) + issued[n].Server_Shoot + issued[n].Multicast_Die

Budget == CallsUpTo(NumInstances) < MaxCalls

\* What a call through a null pointer can do: stop the process, or go on
\* with the call having had no effect.
NullDerefOutcomes == {"crash", "continue"}

Send(box, to, msg) == [box EXCEPT ![to] = Append(@, msg)]

Count(f, self, rpc) == [f EXCEPT ![self][rpc] = @ + 1]

\* ------------------------------------------------- AUnrealTestCharacter RPCs

\* A validation that refuses the shot of a dead (hidden) character.
Server_Shoot_Validate_Alive(self) == ~bHidden[self]

Server_Shoot_Validate(self) == TRUE

Server_Shoot_Implementation(self) ==
    /\ runs' = Count(runs, self, "Server_Shoot")
    /\ IF CurrentWeapon[self] = "null"
       THEN \E outcome \in NullDerefOutcomes :
               /\ crashed' = [crashed EXCEPT ![self] =
                                 IF outcome = "crash" THEN "Server_Shoot" ELSE @]
               /\ UNCHANGED WeaponShots
       ELSE /\ WeaponShots' = [WeaponShots EXCEPT ![self] = @ + 1]
            /\ UNCHANGED crashed

\* HealthComponent->InitializeHealth(MaxHealth)
InitializeHealth(health, self) == [health EXCEPT ![self] = "MaxHealth"]

Client_GameOver_Validate(self, DefeatedTeamID) == TRUE

Client_GameOver_Implementation(self, DefeatedTeamID) ==
    /\ runs' = Count(runs, self, "Client_GameOver")
    /\ GameOverWidget' =
          IF PlayerHUD[self]
          THEN [GameOverWidget EXCEPT ![self] = [defeated |-> TRUE, visible |-> TRUE]]
          ELSE GameOverWidget
    /\ IF Controller[self] = "None"
       THEN \E outcome \in NullDerefOutcomes :
               /\ crashed' = [crashed EXCEPT ![self] =
                                 IF outcome = "crash" THEN "Client_GameOver" ELSE @]
               /\ UNCHANGED ControllerInput
       ELSE /\ ControllerInput' =
                  IF IsPlayerController(self)
                  THEN [ControllerInput EXCEPT ![self] = FALSE]
                  ELSE ControllerInput
            /\ UNCHANGED crashed

Multicast_Die_Validate(self) == TRUE

\* Multicast_Die_Implementation with the hiding moved inside the
\* IsLocallyControlled branch.
Multicast_Die_Implementation_LocalOnly(self) ==
    /\ runs' = Count(runs, self, "Multicast_Die")
    /\ bInputEnabled' =
          IF IsLocallyControlled(self) /\ IsPlayerController(self)
          THEN [bInputEnabled EXCEPT ![self] = FALSE]
          ELSE bInputEnabled
    /\ IF IsLocallyControlled(self)
       THEN /\ bHidden' = [bHidden EXCEPT ![self] = TRUE]
            /\ bCapsuleGravity' = [bCapsuleGravity EXCEPT ![self] = FALSE]
            /\ GravityScale' = [GravityScale EXCEPT ![self] = 0]
            /\ bCollision' = [bCollision EXCEPT ![self] = FALSE]
       ELSE UNCHANGED <<bHidden, bCapsuleGravity, GravityScale, bCollision>>

\* Multicast_Die_Implementation without the DisableInput call.
Multicast_Die_Implementation_InputKept(self) ==
    /\ runs' = Count(runs, self, "Multicast_Die")
    /\ bHidden' = [bHidden EXCEPT ![self] = TRUE]
    /\ bCapsuleGravity' = [bCapsuleGravity EXCEPT ![self] = FALSE]
    /\ GravityScale' = [GravityScale EXCEPT ![self] = 0]
    /\ bCollision' = [bCollision EXCEPT ![self] = FALSE]
    /\ UNCHANGED bInputEnabled

Multicast_Die_Implementation(self) ==
    /\ runs' = Count(runs, self, "Multicast_Die")
    /\ bInputEnabled' =
          IF IsLocallyControlled(self) /\ IsPlayerController(self)
          THEN [bInputEnabled EXCEPT ![self] = FALSE]
          ELSE bInputEnabled
    /\ bHidden' = [bHidden EXCEPT ![self] = TRUE]
    /\ bCapsuleGravity' = [bCapsuleGravity EXCEPT ![self] = FALSE]
    /\ GravityScale' = [GravityScale EXCEPT ![self] = 0]
    /\ bCollision' = [bCollision EXCEPT ![self] = FALSE]

shootFrame == <<WeaponShots, crashed, runs>>
gameOverFrame == <<GameOverWidget, ControllerInput, crashed, runs>>
dieFrame == <<bInputEnabled, bHidden, bCapsuleGravity, GravityScale, bCollision, runs>>

\* The generated thunk of an RPC: validation, then the implementation.
Exec_Server_Shoot(self) ==
    IF Server_Shoot_Validate(self)
    THEN Server_Shoot_Implementation(self) /\ UNCHANGED rejected
    ELSE rejected' = [rejected EXCEPT ![self] = @ + 1] /\ UNCHANGED shootFrame

Exec_Client_GameOver(self, DefeatedTeamID) ==
    IF Client_GameOver_Validate(self, DefeatedTeamID)
    THEN Client_GameOver_Implementation(self, DefeatedTeamID) /\ UNCHANGED rejected
    ELSE rejected' = [rejected EXCEPT ![self] = @ + 1] /\ UNCHANGED gameOverFrame

Exec_Multicast_Die(self) ==
    IF Multicast_Die_Validate(self)
    THEN Multicast_Die_Implementation(self) /\ UNCHANGED rejected
    ELSE rejected' = [rejected EXCEPT ![self] = @ + 1] /\ UNCHANGED dieFrame

\* The Server_Shoot stub: runs in place on the authority instance, travels to
\* it from the owning client, and is dropped on an instance nobody owns.
Server_Shoot(self) ==
    /\ issued' = Count(issued, self, "Server_Shoot")
    /\ IF IsAuthority(self)
       THEN Exec_Server_Shoot(self) /\ UNCHANGED inbox
       ELSE /\ inbox' = IF LocalRole[self] = "ROLE_AutonomousProxy"
                        THEN Send(inbox, ServerOf[self], [rpc |-> "Server_Shoot"])
                        ELSE inbox
            /\ UNCHANGED <<shootFrame, rejected>>

\* The Client_GameOver stub, called on the server: travels to the owning
\* client of a character a remote player owns, runs in place otherwise.
Client_GameOver(self, DefeatedTeamID) ==
    /\ issued' = Count(issued, self, "Client_GameOver")
    /\ IF Controller[self] = "RemotePlayer"
       THEN /\ inbox' = [o \in Instances |->
                           IF o \in OwnerOf(self)
                           THEN Append(inbox[o], [rpc |-> "Client_GameOver",
                                                  DefeatedTeamID |-> DefeatedTeamID])
                           ELSE inbox[o]]
            /\ UNCHANGED <<gameOverFrame, rejected>>
       ELSE Exec_Client_GameOver(self, DefeatedTeamID) /\ UNCHANGED inbox

\* The Multicast_Die stub, called on the server: runs in place and travels to
\* every client instance of the character.
Multicast_Die(self) ==
    /\ issued' = Count(issued, self, "Multicast_Die")
    /\ inbox' = [o \in Instances |->
                    IF o \in ClientsOf(self)
                    THEN Append(inbox[o], [rpc |-> "Multicast_Die"])
                    ELSE inbox[o]]
    /\ Exec_Multicast_Die(self)


\* ------------------------------------------- AUnrealTestCharacter handlers

\* The role test with the wrong threshold: the owning client passes it too.
HasAuthority_Autonomous(self) ==
    NetRole[LocalRole[self]] >= NetRole.ROLE_AutonomousProxy

\* GetLocalRole() >= ROLE_Authority
HasAuthority(self) == NetRole[LocalRole[self]] >= NetRole.ROLE_Authority

\* TBaseDynamicMulticastDelegate::AddUnique: no second entry for one object.
AddUniqueDynamic(list, self) ==
    IF \E k \in 1..Len(list) : list[k] = self THEN list ELSE Append(list, self)

\* BeginPlay, in a world that has a first player controller and whose weapon
\* and widget templates are set.  The engine runs it once per actor, and a
\* client's instance is spawned from the server's, after that one began play.
BeginPlay(self) ==
    /\ ~bHasBegunPlay[self]
    /\ Ready(self)
    /\ bHasBegunPlay[ServerOf[self]] \/ IsAuthority(self)
    /\ bHasBegunPlay' = [bHasBegunPlay EXCEPT ![self] = TRUE]
    /\ CurrentWeapon' = [CurrentWeapon EXCEPT ![self] = "spawned"]
    /\ PlayerHUD' = [PlayerHUD EXCEPT ![self] = HUDClass[self]]
    /\ IF HasAuthority(self)
       THEN /\ Health' = InitializeHealth(Health, self)
            /\ OnGameOver' = AddUniqueDynamic(OnGameOver, self)
       ELSE UNCHANGED <<Health, OnGameOver>>
    /\ IF IsLocallyControlled(self) /\ ~HUDClass[self]
       THEN \E outcome \in NullDerefOutcomes :
               crashed' = [crashed EXCEPT ![self] =
                              IF outcome = "crash" THEN "BeginPlay" ELSE @]
       ELSE UNCHANGED crashed
    /\ UNCHANGED <<worldVars, WeaponShots, bInputBound, bInputEnabled, ControllerInput,
                   bHidden, bCollision, bCapsuleGravity, GravityScale, GameOverWidget,
                   broadcast, inbox, issued, runs, rejected, gameStateVars>>

\* SetupPlayerInputComponent: the engine calls it on the instance the
\* machine's own player controller possesses; ShootBinding binds Shoot and
\* StopShoot to the pressed and released events of the "Shoot" action.
SetupPlayerInputComponent(self) ==
    /\ Controller[self] = "LocalPlayer"
    /\ ~bInputBound[self]
    /\ Ready(self)
    /\ bHasBegunPlay[ServerOf[self]]
    /\ bInputBound' = [bInputBound EXCEPT ![self] = TRUE]
    /\ UNCHANGED <<worldVars, bHasBegunPlay, CurrentWeapon, WeaponShots, PlayerHUD,
                   Health, bInputEnabled, ControllerInput, bHidden, bCollision,
                   bCapsuleGravity, GravityScale, GameOverWidget, modeVars,
                   engineVars, gameStateVars>>

\* The engine hands an input event to the bound handler of the pawn the local
\* player controller possesses, while that pawn's input is enabled.
InputReaches(self) == bInputBound[self] /\ bInputEnabled[self] /\ Ready(self)

\* A Shoot that fires the weapon of the instance the input arrived on.
Shoot_Local(self) ==
    /\ WeaponShots' = [WeaponShots EXCEPT ![self] = @ + 1]
    /\ UNCHANGED <<issued, inbox, crashed, runs, rejected>>

Shoot(self) == Server_Shoot(self)

StopShoot(self) == UNCHANGED <<issued, inbox, shootFrame, rejected>>

ShootPressed(self) ==
    /\ InputReaches(self)
    /\ Budget
    /\ Shoot(self)
    /\ UNCHANGED <<worldVars, bHasBegunPlay, CurrentWeapon, PlayerHUD, Health,
                   bInputBound, bInputEnabled, ControllerInput, bHidden, bCollision,
                   bCapsuleGravity, GravityScale, GameOverWidget, modeVars,
                   gameStateVars>>

ShootReleased(self) ==
    /\ InputReaches(self)
    /\ StopShoot(self)
    /\ UNCHANGED <<worldVars, bHasBegunPlay, CurrentWeapon, PlayerHUD, Health,
                   bInputBound, bInputEnabled, ControllerInput, bHidden, bCollision,
                   bCapsuleGravity, GravityScale, GameOverWidget, modeVars,
                   gameStateVars>>

RespawnPlayer(self) ==
    /\ bHasBegunPlay[self]
    /\ Ready(self)
    /\ Health' = InitializeHealth(Health, self)
    /\ UNCHANGED <<worldVars, bHasBegunPlay, CurrentWeapon, WeaponShots, PlayerHUD,
                   bInputBound, bInputEnabled, ControllerInput, bHidden, bCollision,
                   bCapsuleGravity, GravityScale, GameOverWidget, modeVars,
                   engineVars, gameStateVars>>

\* The server declares a character dead: it calls Multicast_Die on its instance.
Die(self) ==
    /\ IsAuthority(self)
    /\ bHasBegunPlay[self]
    /\ Ready(self)
    /\ Budget
    /\ Multicast_Die(self)
    /\ UNCHANGED <<worldVars, bHasBegunPlay, CurrentWeapon, WeaponShots, PlayerHUD,
                   Health, bInputBound, ControllerInput, GameOverWidget,
                   modeVars, crashed, gameStateVars>>

\* ------------------------------------------------------- OnGameOver delegate

\* The game mode broadcasts OnGameOver: the invocation list is walked in
\* order, one bound Client_GameOver per step.
BroadcastGameOver(DefeatedTeamID) ==
    /\ broadcast.idx = 0
    /\ Budget
    /\ \E s \in Instances : IsAuthority(s) /\ Alive(s)
    /\ broadcast' = [idx |-> IF OnGameOver = <<>> THEN 0 ELSE 1,
                     team |-> IF OnGameOver = <<>> THEN 0 ELSE DefeatedTeamID,
                     count |-> broadcast.count + 1]
    /\ UNCHANGED <<worldVars, charVars, OnGameOver, engineVars, gameStateVars>>

InvokeGameOver ==
    /\ broadcast.idx > 0
    /\ Alive(OnGameOver[broadcast.idx])
    /\ Client_GameOver(OnGameOver[broadcast.idx], broadcast.team)
    /\ broadcast' = IF broadcast.idx = Len(OnGameOver)
                     THEN [broadcast EXCEPT !.idx = 0, !.team = 0]
                     ELSE [broadcast EXCEPT !.idx = @ + 1]
    /\ UNCHANGED <<worldVars, bHasBegunPlay, CurrentWeapon, WeaponShots, PlayerHUD,
                   Health, bInputBound, bInputEnabled, bHidden, bCollision,
                   bCapsuleGravity, GravityScale, OnGameOver, gameStateVars>>

\* ------------------------------------------------------------- RPC delivery

NextRPC(self, rpc) == inbox[self] # <<>> /\ Head(inbox[self]).rpc = rpc /\ Ready(self)

Deliver_Server_Shoot(self) ==
    /\ NextRPC(self, "Server_Shoot")
    /\ inbox' = [inbox EXCEPT ![self] = Tail(@)]
    /\ Exec_Server_Shoot(self)
    /\ UNCHANGED <<worldVars, bHasBegunPlay, CurrentWeapon, PlayerHUD, Health,
                   bInputBound, bInputEnabled, ControllerInput, bHidden, bCollision,
                   bCapsuleGravity, GravityScale, GameOverWidget, modeVars, issued,
                   gameStateVars>>

Deliver_Client_GameOver(self) ==
    /\ NextRPC(self, "Client_GameOver")
    /\ inbox' = [inbox EXCEPT ![self] = Tail(@)]
    /\ Exec_Client_GameOver(self, Head(inbox[self]).DefeatedTeamID)
    /\ UNCHANGED <<worldVars, bHasBegunPlay, CurrentWeapon, WeaponShots, PlayerHUD,
                   Health, bInputBound, bInputEnabled, bHidden, bCollision,
                   bCapsuleGravity, GravityScale, modeVars, issued, gameStateVars>>

Deliver_Multicast_Die(self) ==
    /\ NextRPC(self, "Multicast_Die")
    /\ inbox' = [inbox EXCEPT ![self] = Tail(@)]
    /\ Exec_Multicast_Die(self)
    /\ UNCHANGED <<worldVars, bHasBegunPlay, CurrentWeapon, WeaponShots, PlayerHUD,
                   Health, bInputBound, ControllerInput, GameOverWidget,
                   modeVars, crashed, issued, gameStateVars>>

\* ------------------------------------------------------ AUnrealTestGameState

\* The members' initializers; GamePhase has none.
InitGameState ==
    /\ CurrentPlayersInSession = 0
    /\ MaxPlayersInSession = 0
    /\ GamePhase \in MatchPhases
    /\ setterCalls = 0
    /\ delegateLog = <<>>

GetCurrentPlayersInSession == CurrentPlayersInSession

\* A getter that returns the other counter.
GetMaxPlayerInSession_Current == CurrentPlayersInSession

GetMaxPlayerInSession == MaxPlayersInSession

GetMatchPhase == GamePhase

Broadcast(log, delegate, value) == Append(log, [delegate |-> delegate, value |-> value])

SetPlayerInSession(NewPlayerCount) ==
    /\ setterCalls < MaxNotifications
    /\ CurrentPlayersInSession' = NewPlayerCount
    /\ delegateLog' = Broadcast(delegateLog, "OnPlayerJoined", NewPlayerCount)
    /\ setterCalls' = setterCalls + 1
    /\ UNCHANGED <<worldVars, charVars, modeVars, engineVars, GamePhase,
                   MaxPlayersInSession>>

SetMaxPlayerInSession(NewMaxPlayerCount) ==
    /\ setterCalls < MaxNotifications
    /\ MaxPlayersInSession' = NewMaxPlayerCount
    /\ delegateLog' = Broadcast(delegateLog, "OnPlayerMaxChanged", NewMaxPlayerCount)
    /\ setterCalls' = setterCalls + 1
    /\ UNCHANGED <<worldVars, charVars, modeVars, engineVars, GamePhase,
                   CurrentPlayersInSession>>

SetMatchPhase(NewPhase) ==
    /\ setterCalls < MaxNotifications
    /\ GamePhase' = NewPhase
    /\ delegateLog' = Broadcast(delegateLog, "OnMatchPhaseChanged", NewPhase)
    /\ setterCalls' = setterCalls + 1
    /\ UNCHANGED <<worldVars, charVars, modeVars, engineVars, MaxPlayersInSession,
                   CurrentPlayersInSession>>

\* ---------------------------------------------------------- specifications

\* The characters of a match.  No character reads or writes the game state,
\* which stays as the engine allocates it: zero-filled.
Init == InitWorld /\ InitCharacter /\ InitGameState /\ GamePhase = 0

Next ==
    \/ \E self \in Instances : BeginPlay(self)
    \/ \E self \in Instances : SetupPlayerInputComponent(self)
    \/ \E self \in Instances : ShootPressed(self)
    \/ \E self \in Instances : ShootReleased(self)
    \/ \E self \in Instances : RespawnPlayer(self)
    \/ \E self \in Instances : Die(self)
    \/ \E DefeatedTeamID \in TeamIDs : BroadcastGameOver(DefeatedTeamID)
    \/ InvokeGameOver
    \/ \E self \in Instances : Deliver_Server_Shoot(self)
    \/ \E self \in Instances : Deliver_Client_GameOver(self)
    \/ \E self \in Instances : Deliver_Multicast_Die(self)

Spec == Init /\ [][Next]_vars

\* The game state on its own, in a level of unpossessed characters.
InitGS ==
    /\ LocalRole = [i \in Instances |-> "ROLE_Authority"]
    /\ Controller = [i \in Instances |-> "None"]
    /\ ServerOf = [i \in Instances |-> i]
    /\ HUDClass = [i \in Instances |-> FALSE]
    /\ InitCharacter
    /\ InitGameState

NextGS ==
    \/ \E NewPlayerCount \in PlayerCounts : SetPlayerInSession(NewPlayerCount)
    \/ \E NewMaxPlayerCount \in PlayerCounts : SetMaxPlayerInSession(NewMaxPlayerCount)
    \/ \E NewPhase \in MatchPhases : SetMatchPhase(NewPhase)

SpecGS == InitGS /\ [][NextGS]_vars


\* ------------------------------------------------------------------ claims

PlayerControlledHere(self) == IsLocallyControlled(self) /\ IsPlayerController(self)

Died(self) == runs[self].Multicast_Die > 0

\* A step in which Server_Shoot arrives over the network at an instance.
ServerShootArrives(self) ==
    /\ inbox[self] # <<>>
    /\ Head(inbox[self]).rpc = "Server_Shoot"
    /\ inbox'[self] = Tail(inbox[self])

\* C1: shooting is server-authoritative.  The weapon of an instance has fired
\* exactly as often as Server_Shoot_Implementation has run on that instance,
\* and only authority instances ever fire; a Shoot input issues one
\* Server_Shoot call and, on an instance without authority, fires no weapon
\* anywhere in that step (on the server's own instance the call runs
\* Server_Shoot_Implementation in place); every Server_Shoot that arrives
\* fires the weapon exactly once; StopShoot changes nothing.
C1_ShootIsServerAuthoritative ==
    /\ [](\A i \in Instances :
            /\ WeaponShots[i] = runs[i].Server_Shoot
            /\ WeaponShots[i] > 0 => IsAuthority(i))
    /\ [][\A i \in Instances :
            /\ (issued'[i].Server_Shoot # issued[i].Server_Shoot /\ ~IsAuthority(i))
                  => WeaponShots' = WeaponShots
            /\ ServerShootArrives(i) => WeaponShots'[i] = WeaponShots[i] + 1
            /\ ShootReleased(i) => UNCHANGED vars]_vars

\* C1 witness: the weapon of the server's instance fired for a Server_Shoot
\* that the owning client issued.
C1_Witness ==
    \E s \in Instances : \E o \in OwnerOf(s) :
        /\ issued[o].Server_Shoot = 1
        /\ issued[s].Server_Shoot = 0
        /\ WeaponShots[s] = 1

\* C2: validation is trivial.  In every reachable state the three validation
\* functions accept, for every instance and every DefeatedTeamID, and no RPC
\* has been refused by validation.
C2_ValidationAlwaysAccepts ==
    \A i \in Instances :
        /\ Server_Shoot_Validate(i)
        /\ Multicast_Die_Validate(i)
        /\ \A t \in TeamIDs : Client_GameOver_Validate(i, t)
        /\ rejected[i] = 0

\* C2 witness: a dead character's Server_Shoot has been executed.
C2_Witness ==
    \E i \in Instances :
        /\ Died(i)
        /\ runs[i].Server_Shoot > 0
        /\ rejected[i] = 0

\* The last broadcast is that of `delegate`, with `value`.
Notified(delegate, value) ==
    /\ Len(delegateLog') = Len(delegateLog) + 1
    /\ delegateLog'[Len(delegateLog')] = [delegate |-> delegate, value |-> value]

C4_DeadIsHiddenAndDisabled ==
    \A i \in Instances :
        Died(i) =>
            /\ bHidden[i]
            /\ ~bCollision[i]
            /\ ~bCapsuleGravity[i]
            /\ GravityScale[i] = 0

\* C4 witness: the character died on a simulated proxy, which has no
\* controller, and on its server instance.
C4_Witness ==
    \E i \in Instances :
        /\ LocalRole[i] = "ROLE_SimulatedProxy"
        /\ ~IsLocallyControlled(i)
        /\ Died(i)
        /\ Died(ServerOf[i])

\* C5: input is disabled after death.  On an instance the machine's own
\* player controls, once Multicast_Die_Implementation has run the pawn's input
\* is disabled and no step issues a Server_Shoot call from it; on any other
\* instance Multicast_Die_Implementation leaves the input as it was.
C5_NoShootAfterDeath ==
    /\ [](\A i \in Instances :
            (Died(i) /\ PlayerControlledHere(i)) => ~bInputEnabled[i])
    /\ [][\A i \in Instances :
            /\ (Died(i) /\ PlayerControlledHere(i))
                  => issued'[i].Server_Shoot = issued[i].Server_Shoot
            /\ (runs'[i].Multicast_Die # runs[i].Multicast_Die
                    /\ ~PlayerControlledHere(i))
                  => bInputEnabled'[i] = bInputEnabled[i]]_vars

\* C5 witness: a player's own instance, with Shoot bound, has died while
\* another call is still within the bound.
C5_Witness ==
    \E i \in Instances :
        /\ PlayerControlledHere(i)
        /\ bInputBound[i]
        /\ Died(i)
        /\ ~bInputEnabled[i]
        /\ Budget

\* C6: wherever Client_GameOver_Implementation has run, it completed without
\* error, the player controller's input is disabled, and the game over screen
\* is shown if PlayerHUD is set, for every DefeatedTeamID.
C6_GameOverCompletes ==
    \A i \in Instances :
        runs[i].Client_GameOver > 0 =>
            /\ crashed[i] # "Client_GameOver"
            /\ IsPlayerController(i) => ~ControllerInput[i]
            /\ PlayerHUD[i] => GameOverWidget[i].visible

Occurrences(list, x) == Cardinality({k \in 1..Len(list) : list[k] = x})

\* C7: health initialisation and the OnGameOver subscription are
\* authority-only.  BeginPlay initialises the health exactly on an authority
\* instance; an instance is in OnGameOver's invocation list, once, exactly if
\* it has authority and began play; and Client_GameOver has been called on a
\* character at most once per broadcast.
C7_AuthorityOnlySubscription ==
    /\ [](\A i \in Instances :
            /\ Occurrences(OnGameOver, i) =
                  (IF bHasBegunPlay[i] /\ IsAuthority(i) THEN 1 ELSE 0)
            /\ issued[i].Client_GameOver <= broadcast.count)
    /\ [][\A i \in Instances :
            (~bHasBegunPlay[i] /\ bHasBegunPlay'[i]) =>
                /\ Health[i] = "unset"
                /\ (Health'[i] = "MaxHealth") <=> IsAuthority(i)]_vars

\* C7 witness: two characters are subscribed and one broadcast has called
\* Client_GameOver once on each.
C7_Witness ==
    /\ Len(OnGameOver) = 2
    /\ broadcast.count = 1
    /\ broadcast.idx = 0
    /\ \A k \in 1..2 : issued[OnGameOver[k]].Client_GameOver = 1

=============================================================================
